---- MODULE Spec2Model ----
(***************************************************************************)
(* Call center dispatch: model of                                          *)
(* solutions/object_oriented_design/call_center/call_center.py             *)
(*                                                                         *)
(* Objects are identified by small integers.  An employee's `call` field   *)
(* and a call's `employee` field hold the identifier of the referenced     *)
(* object, or None.  Each public operation runs to completion (one action  *)
(* per operation); an operation that raises leaves the heap as it was at   *)
(* the raise and records the exception in `last`.                          *)
(***************************************************************************)
EXTENDS Integers, Sequences, FiniteSets, TLC

\* ------------------------------------------------------------------ bounds
MaxStaff == 3
MaxCalls == 3

\* --------------------------------------------------------------- constants
OPERATOR == 0
SUPERVISOR == 1
DIRECTOR == 2
\* a value that is not a member of Rank
UnknownRank == 3

None == 0

Ranks == {OPERATOR, SUPERVISOR, DIRECTOR}
CallStates == {"READY", "IN_PROGRESS", "COMPLETE"}

VARIABLES operators, supervisors, directors, queued_calls, emp_call, calls, last,
          threads

vars == <<operators, supervisors, directors, queued_calls, emp_call, calls, last,
          threads>>

\* ----------------------------------------------------------------- helpers
Range(s) == {s[i] : i \in DOMAIN s}

Min(S) == CHOOSE x \in S : \A y \in S : x <= y

\* callers that may run dispatch_call at the same time
Threads == {1, 2}

\* a caller that is not inside dispatch_call
Idle == [pc |-> "idle", call |-> None, lists |-> <<>>, pos |-> 0, emp |-> None]

Staff == Range(operators) \cup Range(supervisors) \cup Range(directors)

\* Employee.rank, fixed by the subclass constructor: employees 1..MaxStaff
\* are Operators, the next MaxStaff Supervisors, the last MaxStaff Directors.
EmpRank(e) == (e - 1) \div MaxStaff

\* The heap an operation works on, with its return value and exception.
Heap == [emp_call |-> emp_call, calls |-> calls, queued_calls |-> queued_calls,
         ret |-> None, err |-> "none"]

\* Call.__init__
NewCall(rank) == [state |-> "READY", rank |-> rank, employee |-> None]

\* ---------------------------------------------------------------- Employee
take_call(h, e, c) ==
    [h EXCEPT !.emp_call[e] = c,
              !.calls[c].employee = e,
              !.calls[c].state = "IN_PROGRESS"]

\* ------------------------------------------------------------- CallCenter
notify_call_escalated(h, c) == h

\* a completion hook that hands out the whole backlog at once
notify_call_completed_drain_all(h, c) ==
    [h EXCEPT !.queued_calls = <<>>,
              !.calls = [q \in DOMAIN h.calls |->
                            IF q \in Range(h.queued_calls)
                            THEN [h.calls[q] EXCEPT !.state = "IN_PROGRESS"]
                            ELSE h.calls[q]]]

notify_call_completed(h, c) == h

\* routing that does not look at employee.call
_dispatch_to_available_nocheck(h, c, employees) ==
    IF Len(employees) = 0
    THEN [h EXCEPT !.ret = None]
    ELSE [take_call(h, employees[1], c) EXCEPT !.ret = employees[1]]

_dispatch_to_available(h, c, employees) ==
    LET free == {i \in DOMAIN employees : h.emp_call[employees[i]] = None}
    IN  IF free = {}
        THEN [h EXCEPT !.ret = None]
        ELSE LET employee == employees[Min(free)]
             IN  [take_call(h, employee, c) EXCEPT !.ret = employee]

_dispatch_call_based_on_rank(h, c) ==
    LET rank == h.calls[c].rank
        d == _dispatch_to_available(h, c, directors)
        s == _dispatch_to_available(h, c, supervisors)
        o == _dispatch_to_available(h, c, operators)
    IN  IF rank = OPERATOR THEN o
        ELSE IF rank = SUPERVISOR
             THEN IF s.ret # None THEN s ELSE o
        ELSE IF rank = DIRECTOR
             THEN IF d.ret # None THEN d
                  ELSE IF s.ret # None THEN s ELSE o
        ELSE [h EXCEPT !.ret = None]

\* submission without the rank check
dispatch_call_unchecked(h, c) ==
    LET r == _dispatch_call_based_on_rank(h, c)
    IN  IF r.ret = None
        THEN [r EXCEPT !.queued_calls = Append(r.queued_calls, c)]
        ELSE r

dispatch_call(h, c) ==
    IF h.calls[c].rank \notin Ranks
    THEN [h EXCEPT !.err = "ValueError"]
    ELSE LET r == _dispatch_call_based_on_rank(h, c)
         IN  IF r.ret = None
             THEN [r EXCEPT !.queued_calls = Append(r.queued_calls, c)]
             ELSE r

\* ------------------------------------------------- Employee (continued)
\* a completion that returns silently when there is no call
complete_call_silent(h, e) ==
    LET c == h.emp_call[e]
    IN  IF c = None
        THEN h
        ELSE notify_call_completed([h EXCEPT !.calls[c].state = "COMPLETE"], c)

complete_call(h, e) ==
    LET c == h.emp_call[e]
    IN  IF c = None
        THEN [h EXCEPT !.err = "AttributeError"]
        ELSE notify_call_completed([h EXCEPT !.calls[c].state = "COMPLETE"], c)

_escalate_call(h, e) ==
    LET c == h.emp_call[e]
        h1 == [h EXCEPT !.calls[c].state = "READY"]
        h2 == [h1 EXCEPT !.emp_call[e] = None]
    IN  notify_call_escalated(h2, c)

\* an Operator that raises the call's rank by one step
Operator_escalate_call_increment(h, e) ==
    LET c == h.emp_call[e]
    IN  IF c = None
        THEN [h EXCEPT !.err = "AttributeError"]
        ELSE _escalate_call([h EXCEPT !.calls[c].rank = h.calls[c].rank + 1], e)

Operator_escalate_call(h, e) ==
    LET c == h.emp_call[e]
    IN  IF c = None
        THEN [h EXCEPT !.err = "AttributeError"]
        ELSE _escalate_call([h EXCEPT !.calls[c].rank = SUPERVISOR], e)

Supervisor_escalate_call(h, e) ==
    LET c == h.emp_call[e]
    IN  IF c = None
        THEN [h EXCEPT !.err = "AttributeError"]
        ELSE _escalate_call([h EXCEPT !.calls[c].rank = DIRECTOR], e)

\* a Director that escalates the way a Supervisor does
Director_escalate_call_as_supervisor(h, e) ==
    LET c == h.emp_call[e]
    IN  IF c = None
        THEN [h EXCEPT !.err = "AttributeError"]
        ELSE _escalate_call([h EXCEPT !.calls[c].rank = DIRECTOR], e)

Director_escalate_call(h, e) == [h EXCEPT !.err = "NotImplementedError"]

\* dynamic dispatch of the abstract Employee.escalate_call
escalate_call(h, e) ==
    IF EmpRank(e) = OPERATOR THEN Operator_escalate_call(h, e)
    ELSE IF EmpRank(e) = SUPERVISOR THEN Supervisor_escalate_call(h, e)
    ELSE Director_escalate_call(h, e)

\* ------------------------------------------------------------------- state
TypeOK ==
    /\ operators \in Seq(1..(3 * MaxStaff))
    /\ supervisors \in Seq(1..(3 * MaxStaff))
    /\ directors \in Seq(1..(3 * MaxStaff))
    /\ emp_call \in [Staff -> 0..MaxCalls]
    /\ Len(calls) <= MaxCalls
    /\ \A c \in DOMAIN calls :
          /\ calls[c].state \in CallStates
          /\ calls[c].rank \in Ranks \cup {UnknownRank}
          /\ calls[c].employee \in Staff \cup {None}
    /\ \A i \in DOMAIN queued_calls : queued_calls[i] \in DOMAIN calls

\* CallCenter.__init__ over freshly constructed employees, at most MaxStaff
\* of them in all
Init ==
    \E nO \in 0..MaxStaff, nS \in 0..MaxStaff, nD \in 0..MaxStaff :
        /\ nO + nS + nD <= MaxStaff
        /\ operators = [i \in 1..nO |-> i]
        /\ supervisors = [i \in 1..nS |-> MaxStaff + i]
        /\ directors = [i \in 1..nD |-> 2 * MaxStaff + i]
        /\ queued_calls = <<>>
        /\ emp_call = [e \in (1..nO) \cup {MaxStaff + i : i \in 1..nS}
                               \cup {2 * MaxStaff + i : i \in 1..nD} |-> None]
        /\ calls = <<>>
        /\ last = [op |-> "init", emp |-> None, call |-> None, err |-> "none"]
        /\ threads = [t \in Threads |-> Idle]

Commit(h, op, e, c) ==
    /\ emp_call' = h.emp_call
    /\ calls' = h.calls
    /\ queued_calls' = h.queued_calls
    /\ last' = [op |-> op, emp |-> e, call |-> c, err |-> h.err]
    /\ UNCHANGED <<operators, supervisors, directors, threads>>

\* the caller constructs a Call of the given rank and submits it
SubmitCall(rank) ==
    /\ Len(calls) < MaxCalls
    /\ LET c == Len(calls) + 1
           h == [Heap EXCEPT !.calls = Append(calls, NewCall(rank))]
       IN  Commit(dispatch_call(h, c), "dispatch_call", None, c)

CompleteCall(e) ==
    Commit(complete_call(Heap, e), "complete_call", e, emp_call[e])

EscalateCall(e) ==
    Commit(escalate_call(Heap, e), "escalate_call", e, emp_call[e])

Next ==
    \/ \E rank \in Ranks \cup {UnknownRank} : SubmitCall(rank)
    \/ \E e \in Staff : CompleteCall(e)
    \/ \E e \in Staff : EscalateCall(e)

Spec == Init /\ [][Next]_vars

\* ------------------------------------------- take_call called by a client
\* Employee.take_call is public: after any sequence of the operations above a
\* caller offers any existing call to any employee.  The exploration stops
\* after that one direct take_call.
TakeCall(e, c) == Commit(take_call(Heap, e, c), "take_call", e, c)

NextAccept ==
    /\ last.op # "take_call"
    /\ \/ Next
       \/ \E e \in Staff, c \in DOMAIN calls : TakeCall(e, c)

SpecAccept == Init /\ [][NextAccept]_vars

\* ------------------------------------------- interleaved dispatch_call
\* Two callers run dispatch_call at the same time.  A step is one test
\* `employee.call is None` of the loop in _dispatch_to_available, the
\* take_call that follows a successful test, or the append to queued_calls.

\* the lists _dispatch_call_based_on_rank goes through, in its order
SearchOrder(rank) ==
    IF rank = OPERATOR THEN <<operators>>
    ELSE IF rank = SUPERVISOR THEN <<supervisors, operators>>
    ELSE <<directors, supervisors, operators>>

RECURSIVE Advance(_, _)
\* the loop position of the next employee to test: a list that is exhausted
\* returns None and the `or` goes on to the next list
Advance(lists, pos) ==
    IF lists = <<>> THEN [lists |-> <<>>, pos |-> 0]
    ELSE IF pos > Len(lists[1]) THEN Advance(Tail(lists), 1)
    ELSE [lists |-> lists, pos |-> pos]

\* the caller constructs a Call and enters dispatch_call
BeginDispatch(t, rank) ==
    /\ threads[t].pc = "idle"
    /\ Len(calls) < MaxCalls
    /\ LET c == Len(calls) + 1
           a == Advance(SearchOrder(rank), 1)
       IN  /\ calls' = Append(calls, NewCall(rank))
           /\ IF rank \notin Ranks
              THEN /\ last' = [op |-> "dispatch_call", emp |-> None, call |-> c,
                               err |-> "ValueError"]
                   /\ UNCHANGED threads
              ELSE /\ threads' = [threads EXCEPT ![t] =
                                     [pc |-> "scan", call |-> c, lists |-> a.lists,
                                      pos |-> a.pos, emp |-> None]]
                   /\ UNCHANGED last
    /\ UNCHANGED <<operators, supervisors, directors, queued_calls, emp_call>>

\* `if employee.call is None`
CheckFree(t) ==
    /\ threads[t].pc = "scan"
    /\ threads[t].lists # <<>>
    /\ LET th == threads[t]
           employee == th.lists[1][th.pos]
           a == Advance(th.lists, th.pos + 1)
       IN  threads' = [threads EXCEPT ![t] =
                          IF emp_call[employee] = None
                          THEN [th EXCEPT !.pc = "take", !.emp = employee]
                          ELSE [th EXCEPT !.lists = a.lists, !.pos = a.pos]]
    /\ UNCHANGED <<operators, supervisors, directors, queued_calls, emp_call,
                   calls, last>>

\* `employee.take_call(call)`, and dispatch_call returns
Assign(t) ==
    /\ threads[t].pc = "take"
    /\ LET h == take_call(Heap, threads[t].emp, threads[t].call)
       IN  /\ emp_call' = h.emp_call
           /\ calls' = h.calls
    /\ last' = [op |-> "dispatch_call", emp |-> None, call |-> threads[t].call,
                err |-> "none"]
    /\ threads' = [threads EXCEPT ![t] = Idle]
    /\ UNCHANGED <<operators, supervisors, directors, queued_calls>>

\* no list had a free employee: `self.queued_calls.append(call)`
Enqueue(t) ==
    /\ threads[t].pc = "scan"
    /\ threads[t].lists = <<>>
    /\ queued_calls' = Append(queued_calls, threads[t].call)
    /\ last' = [op |-> "dispatch_call", emp |-> None, call |-> threads[t].call,
                err |-> "none"]
    /\ threads' = [threads EXCEPT ![t] = Idle]
    /\ UNCHANGED <<operators, supervisors, directors, emp_call, calls>>

NextInterleaved ==
    \/ \E t \in Threads, rank \in Ranks \cup {UnknownRank} : BeginDispatch(t, rank)
    \/ \E t \in Threads : CheckFree(t)
    \/ \E t \in Threads : Assign(t)
    \/ \E t \in Threads : Enqueue(t)

SpecInterleaved == Init /\ [][NextInterleaved]_vars

\* ================================================================== claims
Holders(c) == {e \in Staff : emp_call[e] = c}

QueuePositions(c) == {i \in DOMAIN queued_calls : queued_calls[i] = c}

\* the operation that produced the current state succeeded
Succeeded(op) == last.op = op /\ last.err = "none"

\* C1: for every call, state is IN_PROGRESS iff its employee is set, and then
\* that employee's call is this call; every employee's non-empty call is
\* IN_PROGRESS and points back to the employee.
C1_BidirectionalConsistency ==
    /\ \A c \in DOMAIN calls :
          /\ (calls[c].state = "IN_PROGRESS") <=> (calls[c].employee # None)
          /\ calls[c].state = "IN_PROGRESS" => emp_call[calls[c].employee] = c
    /\ \A e \in Staff :
          emp_call[e] # None =>
              /\ calls[emp_call[e]].state = "IN_PROGRESS"
              /\ calls[emp_call[e]].employee = e

\* C2: every employee holding a call has a rank at or above the call's rank
\* (routing never goes downward).
C2_RankAtLeastRequired ==
    \A e \in Staff :
        emp_call[e] # None => EmpRank(e) >= calls[emp_call[e]].rank

\* C3: every submitted call is in exactly one place: held by exactly one
\* employee and IN_PROGRESS, or exactly once in queued_calls and READY, or
\* COMPLETE and in neither.
C3_ExactlyOnePlace ==
    \A c \in DOMAIN calls :
        calls[c].rank \in Ranks =>
            \/ /\ Cardinality(Holders(c)) = 1
               /\ QueuePositions(c) = {}
               /\ calls[c].state = "IN_PROGRESS"
            \/ /\ Holders(c) = {}
               /\ Cardinality(QueuePositions(c)) = 1
               /\ calls[c].state = "READY"
            \/ /\ Holders(c) = {}
               /\ QueuePositions(c) = {}
               /\ calls[c].state = "COMPLETE"

C4_SingleAssignment ==
    \A e \in Staff :
        Cardinality({c \in DOMAIN calls : /\ calls[c].state = "IN_PROGRESS"
                                          /\ calls[c].employee = e}) <= 1

C4_OnlyFreeSelected ==
    \A e \in Staff :
        (emp_call'[e] # emp_call[e] /\ emp_call'[e] # None) => emp_call[e] = None

\* C4: no employee is the employee of two distinct IN_PROGRESS calls, and no
\* step gives a call to an employee whose call was set.
C4_AtMostOneCall == [][C4_SingleAssignment' /\ C4_OnlyFreeSelected]_vars

\* a call was dispatched while an employee among those searched for it was
\* busy with another call
C4_Witness ==
    /\ Succeeded("dispatch_call")
    /\ \E e \in Staff :
          /\ emp_call[e] \notin {None, last.call}
          /\ EmpRank(e) <= calls[last.call].rank
          /\ \E c \in DOMAIN calls : c # emp_call[e] /\ calls[c].employee = e

\* C5: after a successful complete_call the call is COMPLETE and the
\* employee's call is cleared (the employee is free for the next routing).
C5_CompleteFreesEmployee ==
    Succeeded("complete_call") =>
        /\ calls[last.call].state = "COMPLETE"
        /\ emp_call[last.emp] = None

\* queued calls that an employee free after e's completion (e included) of
\* rank at or above the call's rank could serve
C6_Routable(e) ==
    {i \in DOMAIN queued_calls :
        \E f \in Staff : /\ (emp_call[f] = None \/ f = e)
                         /\ EmpRank(f) >= calls[queued_calls[i]].rank}

\* C6: a successful complete_call with a routable queued call assigns the
\* first routable call of queued_calls and removes it from queued_calls.
C6_DrainOnCompletion ==
    [][(/\ last'.op = "complete_call"
        /\ last'.err = "none"
        /\ C6_Routable(last'.emp) # {})
       => LET q == queued_calls[Min(C6_Routable(last'.emp))]
          IN  /\ q \notin Range(queued_calls')
              /\ calls'[q].state = "IN_PROGRESS"]_vars

\* C7: after a successful escalate_call the call is either IN_PROGRESS with
\* an employee of rank at or above its raised rank, or READY and last in
\* queued_calls.
C7_EscalatedCallRerouted ==
    Succeeded("escalate_call") =>
        LET c == last.call
        IN  \/ /\ calls[c].state = "IN_PROGRESS"
               /\ \E e \in Staff : /\ emp_call[e] = c
                                   /\ calls[c].employee = e
                                   /\ EmpRank(e) >= calls[c].rank
            \/ /\ calls[c].state = "READY"
               /\ Len(queued_calls) > 0
               /\ queued_calls[Len(queued_calls)] = c

\* C8: a call's rank never decreases, and a successful escalate_call raises
\* the escalated call's rank by exactly one.
C8_RankMonotone ==
    [][\A c \in DOMAIN calls :
          /\ calls'[c].rank >= calls[c].rank
          /\ (last'.op = "escalate_call" /\ last'.err = "none" /\ last'.call = c)
                => calls'[c].rank = calls[c].rank + 1]_vars

\* C9: once a call is COMPLETE no step changes its state or rank or gives it
\* to an employee.
C9_CompleteIsTerminal ==
    [][\A c \in DOMAIN calls :
          calls[c].state = "COMPLETE" =>
              /\ calls'[c].state = "COMPLETE"
              /\ calls'[c].rank = calls[c].rank
              /\ \A e \in Staff : emp_call'[e] = c => emp_call[e] = c]_vars

\* C10: escalate_call on a Director raises, and leaves every employee, every
\* call and queued_calls unchanged.
C10_DirectorEscalateFails ==
    [][(last'.op = "escalate_call" /\ EmpRank(last'.emp) = DIRECTOR)
       => /\ last'.err = "NotImplementedError"
          /\ UNCHANGED <<emp_call, calls, queued_calls>>]_vars

\* a Director holding an IN_PROGRESS call has just tried to escalate it
C10_Witness ==
    /\ last.op = "escalate_call"
    /\ last.err = "NotImplementedError"
    /\ EmpRank(last.emp) = DIRECTOR
    /\ emp_call[last.emp] # None
    /\ calls[emp_call[last.emp]].state = "IN_PROGRESS"
    /\ calls[emp_call[last.emp]].employee = last.emp

\* C11: with one Operator busy on an IN_PROGRESS call and one queued
\* Operator-rank call, the Operator's complete_call assigns the queued call
\* to that Operator (the step by which a waiting call gets assigned).
C11_QueuedCallAssignedOnCompletion ==
    [][(/\ last'.op = "complete_call"
        /\ last'.err = "none"
        /\ Staff = {last'.emp}
        /\ EmpRank(last'.emp) = OPERATOR
        /\ calls[emp_call[last'.emp]].state = "IN_PROGRESS"
        /\ Len(queued_calls) = 1
        /\ calls[queued_calls[1]].rank = OPERATOR)
       => /\ calls'[queued_calls[1]].state = "IN_PROGRESS"
          /\ calls'[queued_calls[1]].employee = last'.emp
          /\ emp_call'[last'.emp] = queued_calls[1]]_vars

\* s with its i-th element removed
RemoveAt(s, i) == [j \in 1..(Len(s) - 1) |-> IF j < i THEN s[j] ELSE s[j + 1]]

\* C12: a complete_call removes at most one call from queued_calls, keeps the
\* order of the others, and turns at most one READY call IN_PROGRESS.
C12_AtMostOneDrained ==
    [][last'.op = "complete_call"
       => /\ \/ queued_calls' = queued_calls
             \/ \E i \in DOMAIN queued_calls :
                    queued_calls' = RemoveAt(queued_calls, i)
          /\ Cardinality({c \in DOMAIN calls :
                             /\ calls[c].state = "READY"
                             /\ calls'[c].state = "IN_PROGRESS"}) <= 1]_vars

\* a call was completed while two calls were waiting
C12_Witness ==
    /\ Succeeded("complete_call")
    /\ calls[last.call].state = "COMPLETE"
    /\ Len(queued_calls) >= 2

\* C13: complete_call and escalate_call on an employee whose call is None
\* raise, and leave every employee, every call and queued_calls unchanged.
C13_NoCallFails ==
    [][(/\ last'.op \in {"complete_call", "escalate_call"}
        /\ emp_call[last'.emp] = None)
       => /\ last'.err # "none"
          /\ UNCHANGED <<emp_call, calls, queued_calls>>]_vars

\* a free employee, with a call waiting, was asked to complete its call
C13_Witness ==
    /\ last.op = "complete_call"
    /\ last.err = "AttributeError"
    /\ last.call = None
    /\ emp_call[last.emp] = None
    /\ queued_calls # <<>>

\* C15: dispatch_call of a call whose rank is not a Rank raises ValueError
\* before any routing: no employee's call changes, queued_calls is unchanged,
\* the new call stays READY with no employee and no other call changes.
C15_UnknownRankRejected ==
    [][(/\ last'.op = "dispatch_call"
        /\ calls'[last'.call].rank \notin Ranks)
       => /\ last'.err = "ValueError"
          /\ UNCHANGED <<emp_call, queued_calls>>
          /\ calls'[last'.call] = NewCall(calls'[last'.call].rank)
          /\ \A c \in DOMAIN calls : calls'[c] = calls[c]]_vars

\* a call of unknown rank was rejected while an employee was free
C15_Witness ==
    /\ last.op = "dispatch_call"
    /\ last.err = "ValueError"
    /\ calls[last.call].rank = UnknownRank
    /\ \E e \in Staff : emp_call[e] = None

\* free employees of rank at or above r
C16_Candidates(r) == {e \in Staff : emp_call[e] = None /\ EmpRank(e) >= r}

\* the employees of rank r in list order
C16_ListOf(r) == IF r = OPERATOR THEN operators
                 ELSE IF r = SUPERVISOR THEN supervisors ELSE directors

\* first free employee in list order within the lowest rank at or above r
\* that has a free employee
C16_Choice(r) ==
    LET low == Min({EmpRank(e) : e \in C16_Candidates(r)})
        l == C16_ListOf(low)
    IN  l[Min({i \in DOMAIN l : emp_call[l[i]] = None})]

\* C16: dispatch_call of a call of valid rank r assigns it exactly when a
\* free employee of rank at or above r exists, to the first free employee in
\* list order of the lowest such rank; otherwise it appends the call to
\* queued_calls and changes no employee.
C16_SubmitRouting ==
    [][(/\ last'.op = "dispatch_call"
        /\ calls'[last'.call].rank \in Ranks)
       => LET c == last'.call
              r == calls'[c].rank
          IN  IF C16_Candidates(r) = {}
              THEN /\ queued_calls' = Append(queued_calls, c)
                   /\ emp_call' = emp_call
                   /\ calls'[c].state = "READY"
              ELSE /\ queued_calls' = queued_calls
                   /\ emp_call' = [emp_call EXCEPT ![C16_Choice(r)] = c]
                   /\ calls'[c].state = "IN_PROGRESS"
                   /\ calls'[c].employee = C16_Choice(r)]_vars

\* C17: a successful escalate_call leaves the call's rank one step above the
\* escalating employee's rank, whatever the call's rank was.
C17_EscalateToNextRank ==
    [][(/\ last'.op = "escalate_call"
        /\ last'.err = "none")
       => calls'[last'.call].rank = EmpRank(last'.emp) + 1]_vars

\* an Operator and a Supervisor have each escalated a call
C17_Witness ==
    /\ Succeeded("escalate_call")
    /\ \E c, d \in DOMAIN calls :
          /\ calls[c].state = "READY" /\ calls[d].state = "READY"
          /\ calls[c].employee # None /\ calls[d].employee # None
          /\ EmpRank(calls[c].employee) = OPERATOR
          /\ EmpRank(calls[d].employee) = SUPERVISOR
          /\ calls[c].rank = SUPERVISOR
          /\ calls[d].rank = DIRECTOR

\* C18: no call waits in queued_calls while an employee of rank at or above
\* the call's rank is free.
C18_WorkConserving ==
    \A i \in DOMAIN queued_calls :
        ~ \E e \in Staff : /\ emp_call[e] = None
                           /\ EmpRank(e) >= calls[queued_calls[i]].rank

\* C14: take_call on an employee whose call is set, or with a call that is
\* not READY, raises and leaves every employee and every call unchanged.
C14_AcceptChecksPreconditions ==
    [][(/\ last'.op = "take_call"
        /\ \/ emp_call[last'.emp] # None
           \/ calls[last'.call].state # "READY")
       => /\ last'.err # "none"
          /\ UNCHANGED <<emp_call, calls, queued_calls>>]_vars

\* C19: with dispatch_call interleaved at the free test and take_call, no two
\* IN_PROGRESS calls have the same employee, and the employee of an
\* IN_PROGRESS call still holds that call (its assignment is not overwritten).
C19_AtomicAssignment ==
    /\ \A c, d \in DOMAIN calls :
          (/\ c # d
           /\ calls[c].state = "IN_PROGRESS"
           /\ calls[d].state = "IN_PROGRESS")
          => calls[c].employee # calls[d].employee
    /\ \A c \in DOMAIN calls :
          calls[c].state = "IN_PROGRESS" => emp_call[calls[c].employee] = c

====
